---- MODULE Spec2Model ----
(***************************************************************************)
(* Model of the x86-64 Brainfuck JIT of src/bf_jit64.cpp:                  *)
(*   - the code generator (templates, loop matching, branch patching),     *)
(*   - BrainfuckProgram::init (buffer, mmap, memmove, mprotect),           *)
(*   - BrainfuckProgram::run, as the execution of the generated bytes on   *)
(*     the subset of x86-64 the templates use.                             *)
(* A source program is a sequence of one-character strings; a code buffer  *)
(* is a sequence of bytes (0..255); the byte at buffer offset o is         *)
(* code[o + 1].  C++ iterators are indices 1..Len(src)+1.                  *)
(***************************************************************************)
EXTENDS Integers, Sequences, FiniteSets, TLC

VARIABLES
  executable_,     \* BrainfuckProgram::executable_ : NULL, MAP_FAILED or a mapping
  exit_offset_,    \* BrainfuckProgram::exit_offset_
  region,          \* the mapping executable_ points to: bytes copied in, size, protection
  nMapped,         \* mappings alive in the process (the code never unmaps)
  mmapCalls,       \* mmap requests made so far
  proc,            \* "idle" | "running" | "crashed"
  initRet,         \* what the last init call returned: "none" | "ok" | "fail"
  source,          \* the string the caller passes / last passed to init
  patched,         \* buffer offsets handed to code->replace by the last init
  nInit,           \* init calls made
  wmode,           \* behaviour of the host's putchar: "ok" | "fail"
  stdin,           \* the bytes on standard input
  nRun,            \* run calls made
  m,               \* the CPU and the process's I/O and arena during run
  sh,              \* a second CPU, entered with cleared scratch registers
  ref,             \* a reference Brainfuck interpreter
  codeLen,         \* a buffer length, for the page rounding alone
  pageSize,        \* a page size, for the page rounding alone
  required_memory  \* the size the page rounding asks for

vars == <<executable_, exit_offset_, region, nMapped, mmapCalls, proc, initRet, source, patched, nInit, wmode, stdin, nRun, m, sh, ref, codeLen, pageSize, required_memory>>

objVars == <<executable_, exit_offset_, region, nMapped, mmapCalls, initRet, patched, nInit>>
runVars == <<nRun, m, sh, ref>>
envVars == <<wmode, stdin>>
pageVars == <<codeLen, pageSize, required_memory>>

---------------------------------------------------------------------------
(* Bounds of the model *)

MaxLifeLen == 3
MaxGenLen == 4
MaxRunLen == 2
MaxInits == 2
MaxRuns == 2
MaxIO == 3
ArenaSize == 9
MaxCodeLen == 70

---------------------------------------------------------------------------
(* Bytes *)

\* the k-th byte (k = 0 lowest) of the two's complement form of v
RECURSIVE ByteOf(_, _)
ByteOf(v, k) == IF k = 0 THEN v % 256 ELSE ByteOf(v \div 256, k - 1)

\* string((char *) &relative_address, 4) of a uint32_t on a little-endian host
LE32(v) == <<ByteOf(v, 0), ByteOf(v, 1), ByteOf(v, 2), ByteOf(v, 3)>>

\* the signed value of four little-endian bytes at buffer offset o
Disp32(code, o) == code[o + 1] + 256 * code[o + 2] + 65536 * code[o + 3] + 16777216 * (IF code[o + 4] >= 128 THEN code[o + 4] - 256 ELSE code[o + 4])

\* the signed value of one byte
SImm8(b) == IF b >= 128 THEN b - 256 ELSE b

---------------------------------------------------------------------------
(* The machine-code templates *)

START == <<\h41, \h54, \h41, \h55, \h41, \h56, \h55, \h53, \h49, \h89, \hfc, \h49, \h89, \hf5, \h49, \h89, \hd6, \h48, \h89, \hcd, \h4c, \h89, \hc3>>

EXIT == <<\h5b, \h5d, \h41, \h5e, \h41, \h5d, \h41, \h5c, \hc3>>

LEFT == <<\h48, \h83, \heb, \h01>>

RIGHT == <<\h48, \h83, \hc3, \h01>>

SUBTRACT == <<\h8a, \h03, \h2c, \h01, \h88, \h03>>

\* a faulty variant: the template does not load the cell before adding
ADD_stale == <<\h04, \h01, \h88, \h03>>

ADD == <<\h8a, \h03, \h04, \h01, \h88, \h03>>

READ == <<\h48, \h89, \hef, \h41, \hff, \hd6, \h48, \h83, \hf8, \h00>>

READ_STORE == <<\h48, \h89, \h03>>

WRITE == <<\h4c, \h89, \hef, \h48, \h0f, \hb6, \h33, \h41, \hff, \hd4, \h48, \h83, \hf8, \h01>>

LOOP_CMP == <<\h80, \h3b, \h00>>

\* the 6 bytes generate_loop_code reserves for the je
PLACEHOLDER == <<\hde, \had, \hbe, \hef, \hde, \had>>

JE == <<\h0f, \h84>>
JNE == <<\h0f, \h85>>
JL == <<\h0f, \h8c>>
JMP == <<\he9>>
JMP_SHORT == <<\heb>>

---------------------------------------------------------------------------
(* The code generator *)

\* the scan of find_loop_end: 0 when string_end is reached first
RECURSIVE find_loop_scan(_, _, _, _)
find_loop_scan(src, it, string_end, level) ==
  IF it = string_end THEN 0
  ELSE IF src[it] = "[" THEN find_loop_scan(src, it + 1, string_end, level + 1)
  ELSE IF src[it] = "]" THEN
         IF level - 1 = 0 THEN it
         ELSE find_loop_scan(src, it + 1, string_end, level - 1)
  ELSE find_loop_scan(src, it + 1, string_end, level)

\* a faulty variant: the first ']' ends the loop, whatever the nesting
find_loop_end_flat(src, loop_start, string_end) ==
  LET close == {j \in (loop_start + 1)..(string_end - 1) : src[j] = "]"}
  IN  IF close = {} THEN 0 ELSE CHOOSE j \in close : \A k \in close : j <= k

\* find_loop_end: the index of the matching ']' (*loop_end), or 0 for false
find_loop_end(src, loop_start, string_end) ==
  find_loop_scan(src, loop_start + 1, string_end, 1)

\* a faulty variant: the branch after write tests for equality
add_jne_to_exit_je(xo, code) ==
  LET c == code \o JE
  IN  c \o LE32(xo - (Len(c) + 4))

add_jne_to_exit(xo, code) ==
  LET c == code \o JNE
  IN  c \o LE32(xo - (Len(c) + 4))

add_jl_to_exit(xo, code) ==
  LET c == code \o JL
  IN  c \o LE32(xo - (Len(c) + 4))

\* a faulty variant: the displacement is taken from the start of its own field
add_jmp_to_offset_early(offset, code) ==
  LET c == code \o JMP
  IN  c \o LE32(offset - Len(c))

add_jmp_to_offset(offset, code) ==
  LET c == code \o JMP
  IN  c \o LE32(offset - (Len(c) + 4))

add_jmp_to_exit(xo, code) == add_jmp_to_offset(xo, code)

\* std::string::replace(pos, len, str)
replace(code, pos, len, str) ==
  SubSeq(code, 1, pos) \o str \o SubSeq(code, pos + len + 1, Len(code))

generate_left_code(code) == code \o LEFT

generate_right_code(code) == code \o RIGHT

generate_subtract_code(code) == code \o SUBTRACT

generate_add_code(code) == code \o ADD

generate_read_code(xo, code) == add_jl_to_exit(xo, code \o READ) \o READ_STORE

generate_write_code(xo, code) == add_jne_to_exit(xo, code \o WRITE)

\* a faulty variant: the je displacement forgets the length of the je itself
close_loop_short(loop_start, jump_start, g) ==
  LET c == add_jmp_to_offset(loop_start, g.code)
      jump_to_end == JE \o LE32(Len(c) - jump_start)
  IN  [ok |-> TRUE, code |-> replace(c, jump_start, Len(jump_to_end), jump_to_end), patched |-> Append(g.patched, jump_start)]

\* the back jump and the patch of generate_loop_code, after the body is emitted
\* into g.code: loop_start and jump_start are the offsets noted before the body
close_loop(loop_start, jump_start, g) ==
  LET c == add_jmp_to_offset(loop_start, g.code)
      jump_to_end == JE \o LE32(Len(c) - (jump_start + Len(JE) + 4))
  IN  [ok |-> TRUE, code |-> replace(c, jump_start, Len(jump_to_end), jump_to_end), patched |-> Append(g.patched, jump_start)]

\* the cases of the switch of generate_sequence_code other than '[': a
\* character with no case (']' included) appends nothing
switch_simple(ch, xo, code) ==
  CASE ch = "<" -> generate_left_code(code)
    [] ch = ">" -> generate_right_code(code)
    [] ch = "-" -> generate_subtract_code(code)
    [] ch = "+" -> generate_add_code(code)
    [] ch = "," -> generate_read_code(xo, code)
    [] ch = "." -> generate_write_code(xo, code)
    [] OTHER -> code

\* g = [ok, code, patched]: the return value, *code, and the offsets replaced
RECURSIVE generate_sequence_code(_, _, _, _, _)
RECURSIVE generate_loop_code(_, _, _, _, _)
generate_loop_code(src, start, end, xo, g) ==
  LET loop_start == Len(g.code)
      c1 == g.code \o LOOP_CMP
      jump_start == Len(c1)
      c2 == c1 \o PLACEHOLDER
      body == generate_sequence_code(src, start + 1, end, xo, [g EXCEPT !.code = c2])
  IN  IF ~body.ok THEN body
      ELSE close_loop(loop_start, jump_start, body)

generate_sequence_code(src, it, end, xo, g) ==
  IF it = end THEN [g EXCEPT !.ok = TRUE]
  ELSE IF src[it] = "[" THEN
         LET loop_end == find_loop_end(src, it, end)
         IN  IF loop_end = 0 THEN [g EXCEPT !.ok = FALSE]
             ELSE LET r == generate_loop_code(src, it, loop_end, xo, g)
                  IN  IF ~r.ok THEN r
                      ELSE generate_sequence_code(src, loop_end + 1, end, xo, r)
  ELSE generate_sequence_code(src, it + 1, end, xo, [g EXCEPT !.code = switch_simple(src[it], xo, g.code)])

---------------------------------------------------------------------------
(* init *)

NULL == 0
MAP_FAILED == -1
PageSize == 4096

NoRegion == [bytes |-> <<>>, size |-> 0, prot |-> "none"]

\* (code.size() / sysconf(_SC_PAGESIZE) + 1) * sysconf(_SC_PAGESIZE)
RequiredMemory(size, page) == (size \div page + 1) * page

\* the buffer of init up to the epilogue: START, "\xeb", (char) (sizeof(EXIT) - 1)
prologue_code == START \o JMP_SHORT \o <<Len(EXIT)>>

\* the buffer init builds: [ok, code, patched, xo]; xo is exit_offset_
build_code(src) ==
  LET xo == Len(prologue_code)
      g == generate_sequence_code(src, 1, Len(src) + 1, xo, [ok |-> TRUE, code |-> prologue_code \o EXIT, patched |-> <<>>])
  IN  IF ~g.ok THEN [ok |-> FALSE, code |-> g.code, patched |-> g.patched, xo |-> xo]
      ELSE [ok |-> TRUE, code |-> add_jmp_to_exit(xo, g.code), patched |-> g.patched, xo |-> xo]

(* BrainfuckProgram::init(source).  mmap_ok and mprotect_ok are what the     *)
(* operating system answers: mmap returns a fresh mapping or MAP_FAILED,     *)
(* mprotect 0 or -1.  memmove into MAP_FAILED is a store to an unmapped      *)
(* address: the process dies.                                                *)
init(src, mmap_ok, mprotect_ok) ==
  LET b == build_code(src)
      size == RequiredMemory(Len(b.code), PageSize)
      mapped == IF mmap_ok THEN nMapped + 1 ELSE MAP_FAILED
  IN  /\ proc = "idle"
      /\ nInit' = nInit + 1
      /\ source' = src
      /\ exit_offset_' = b.xo
      /\ patched' = b.patched
      /\ IF ~b.ok
         THEN /\ initRet' = "fail"
              /\ UNCHANGED <<executable_, region, nMapped, mmapCalls, proc>>
         ELSE /\ mmapCalls' = mmapCalls + 1
              /\ executable_' = mapped
              /\ IF mapped = NULL
                 THEN /\ initRet' = "fail"
                      /\ UNCHANGED <<region, nMapped, proc>>
                 ELSE IF mapped = MAP_FAILED
                 THEN /\ proc' = "crashed"
                      /\ initRet' = "none"
                      /\ UNCHANGED <<region, nMapped>>
                 ELSE /\ nMapped' = nMapped + 1
                      /\ proc' = proc
                      /\ IF ~mprotect_ok
                         THEN /\ region' = [bytes |-> b.code, size |-> size, prot |-> "rw"]
                              /\ initRet' = "fail"
                         ELSE /\ region' = [bytes |-> b.code, size |-> size, prot |-> "rx"]
                              /\ initRet' = "ok"

---------------------------------------------------------------------------
(* Source programs *)

Commands == {"<", ">", "+", "-", ".", ",", "[", "]"}

Strings(alphabet, n) == UNION {[1..k -> alphabet] : k \in 0..n}

Idle == [status |-> "idle"]

\* the constructor sets executable_ alone: exit_offset_ holds whatever was there
ObjectInit ==
  /\ executable_ = NULL
  /\ exit_offset_ \in {0, 1}
  /\ region = NoRegion
  /\ nMapped = 0
  /\ mmapCalls = 0
  /\ proc = "idle"
  /\ initRet = "none"
  /\ patched = <<>>
  /\ nInit = 0

RunInit ==
  /\ nRun = 0
  /\ m = Idle
  /\ sh = Idle
  /\ ref = Idle

PageInit ==
  /\ codeLen = 0
  /\ pageSize = 0
  /\ required_memory = 0

---------------------------------------------------------------------------
(* The object's life: any sequence of init calls *)

LifeAlphabet == {"+", ".", "[", "]"}
LifeSources == Strings(LifeAlphabet, MaxLifeLen)

InitLife ==
  /\ ObjectInit /\ RunInit /\ PageInit
  /\ source = <<>>
  /\ wmode = "ok"
  /\ stdin = <<>>

InitAny ==
  /\ nInit < MaxInits
  /\ \E s \in LifeSources, mmap_ok \in BOOLEAN, mprotect_ok \in BOOLEAN : init(s, mmap_ok, mprotect_ok)
  /\ UNCHANGED <<runVars, envVars, pageVars>>

NextLife == InitAny

SpecLife == InitLife /\ [][NextLife]_vars

---------------------------------------------------------------------------
(* The page rounding alone, over buffer lengths and page sizes *)

PageSizes == {8, 16, 64, 4096}

InitPages ==
  /\ ObjectInit /\ RunInit
  /\ source = <<>>
  /\ wmode = "ok"
  /\ stdin = <<>>
  /\ codeLen \in 1..MaxCodeLen
  /\ pageSize \in PageSizes
  /\ required_memory = 0

RoundUp ==
  /\ required_memory = 0
  /\ required_memory' = RequiredMemory(codeLen, pageSize)
  /\ UNCHANGED <<objVars, proc, source, runVars, envVars, codeLen, pageSize>>

NextPages == RoundUp

SpecPages == InitPages /\ [][NextPages]_vars

---------------------------------------------------------------------------
(* One init call on a string the caller holds *)

GenAlphabet == {">", "+", ".", ",", "[", "]", "x"}

GenExtras == {
  <<"+", "+", "[", ">", "+", "<", "-", "]", ">", ".">>,
  <<"[", "[", ".", "]", ",", "[", "-", "]", "]">>,
  <<"]", "x", "[", "<", "[", "]", "]", "]">> }

GenSources == Strings(GenAlphabet, MaxGenLen) \cup GenExtras

InitGen ==
  /\ ObjectInit /\ RunInit /\ PageInit
  /\ source \in GenSources
  /\ wmode = "ok"
  /\ stdin = <<>>

InitGiven ==
  /\ nInit = 0
  /\ \E mmap_ok \in BOOLEAN, mprotect_ok \in BOOLEAN : init(source, mmap_ok, mprotect_ok)
  /\ UNCHANGED <<runVars, envVars, pageVars>>

NextGen == InitGiven

SpecGen == InitGen /\ [][NextGen]_vars

---------------------------------------------------------------------------
(* Bracket structure of a source, stated without the scan of the code *)

Count(s, a, b, ch) == Cardinality({x \in a..b : s[x] = ch})

\* s[a..b] has as many '[' as ']' and no prefix with more ']' than '['
Balanced(s, a, b) ==
  /\ Count(s, a, b, "[") = Count(s, a, b, "]")
  /\ \A k \in a..b : Count(s, a, k, "[") >= Count(s, a, k, "]")

Matches(s, i, j) ==
  /\ i < j
  /\ s[i] = "["
  /\ s[j] = "]"
  /\ Balanced(s, i + 1, j - 1)

HasMatch(s, i) == \E j \in 1..Len(s) : Matches(s, i, j)

MatchOf(s, i) == CHOOSE j \in 1..Len(s) : Matches(s, i, j)

ClosesLoop(s, j) == \E i \in 1..Len(s) : Matches(s, i, j)

OpenerOf(s, j) == CHOOSE i \in 1..Len(s) : Matches(s, i, j)

AllOpenMatched(s) == \A i \in 1..Len(s) : s[i] = "[" => HasMatch(s, i)

HasUnmatchedOpen(s) == \E i \in 1..Len(s) : s[i] = "[" /\ ~HasMatch(s, i)

\* a character that emits something
Emits(s, k) == s[k] \in Commands /\ (s[k] = "]" => ClosesLoop(s, k))

\* s without the characters that emit nothing
RECURSIVE StripFrom(_, _)
StripFrom(s, k) ==
  IF k > Len(s) THEN <<>>
  ELSE (IF Emits(s, k) THEN <<s[k]>> ELSE <<>>) \o StripFrom(s, k + 1)

Strip(s) == StripFrom(s, 1)

---------------------------------------------------------------------------
(* C1: a source with an unmatched '[' makes init return failure without any  *)
(* mmap request, and after that call the object holds no executable region   *)
(* that run could invoke, whatever init calls came before.                   *)
C1_UnmatchedLeavesNoRegion ==
  [][(nInit' = nInit + 1 /\ HasUnmatchedOpen(source'))
       => /\ initRet' = "fail"
          /\ mmapCalls' = mmapCalls
          /\ ~(executable_' # NULL /\ executable_' # MAP_FAILED /\ region'.prot = "rx")]_vars

(* C5: when mmap or mprotect fails during init, init returns failure, the    *)
(* process survives (nothing is copied into an unacquired region), the       *)
(* object holds no region and the call leaves no mapping allocated.          *)
C5_OsFailureLeavesNoRegion ==
  [][(nInit' = nInit + 1 /\ mmapCalls' = mmapCalls + 1 /\ initRet' # "ok")
       => (proc' = "idle" /\ initRet' = "fail" /\ executable_' = NULL /\ nMapped' = nMapped)]_vars

(* C7: the size requested is the smallest positive multiple of the page size *)
(* that is >= the buffer length, also when the length is an exact multiple.  *)
C7_SmallestMultiple ==
  required_memory # 0 =>
    /\ required_memory % pageSize = 0
    /\ required_memory >= codeLen
    /\ required_memory - pageSize < codeLen


---------------------------------------------------------------------------
(* Where each source character's code lies in the buffer, from the template  *)
(* lengths alone                                                             *)

\* a two-byte conditional branch, a one-byte jmp, each with its rel32
BranchLen == Len(JE) + 4
BackJumpLen == Len(JMP) + 4

EmitLen(s, k) ==
  CASE s[k] \in {"<", ">"} -> Len(LEFT)
    [] s[k] \in {"+", "-"} -> Len(ADD)
    [] s[k] = "," -> Len(READ) + BranchLen + Len(READ_STORE)
    [] s[k] = "." -> Len(WRITE) + BranchLen
    [] s[k] = "[" -> Len(LOOP_CMP) + BranchLen
    [] s[k] = "]" /\ ClosesLoop(s, k) -> BackJumpLen
    [] OTHER -> 0

RECURSIVE SumLen(_, _)
SumLen(s, k) == IF k = 0 THEN 0 ELSE SumLen(s, k - 1) + EmitLen(s, k)

\* the buffer offset at which the code of s[k] starts
Off(s, k) == Len(START) + 2 + Len(EXIT) + SumLen(s, k - 1)

\* the bytes of s[k]'s code that hold no displacement
FixedBytes(s, k) ==
  CASE s[k] = "<" -> LEFT
    [] s[k] = ">" -> RIGHT
    [] s[k] = "+" -> ADD
    [] s[k] = "-" -> SUBTRACT
    [] s[k] = "," -> READ
    [] s[k] = "." -> WRITE
    [] s[k] = "[" -> LOOP_CMP
    [] OTHER -> <<>>

\* at offset o the buffer holds the branch opcode opc and a displacement to target
Branch(buf, o, opc, target) ==
  /\ SubSeq(buf, o + 1, o + Len(opc)) = opc
  /\ Disp32(buf, o + Len(opc)) = target - (o + Len(opc) + 4)

HasPlaceholder(buf) ==
  \E o \in 0..(Len(buf) - Len(PLACEHOLDER)) : SubSeq(buf, o + 1, o + Len(PLACEHOLDER)) = PLACEHOLDER

Loops(s) == {k \in 1..Len(s) : s[k] = "["}

(* C9: in the buffer of a successful init every 4-byte displacement equals   *)
(* target - (field offset + 4): jne/jl and the final jmp target the epilogue *)
(* offset, a back jump targets its loop's cmpb, a loop's je targets the byte *)
(* after its back jump; each placeholder was replaced exactly once, none is  *)
(* left, and the buffer has the length and the template bytes of the layout. *)
C9_BranchesResolved ==
  initRet = "ok" =>
    LET s == source
        buf == region.bytes
    IN  /\ exit_offset_ = Len(START) + 2
        /\ SubSeq(buf, 1, Len(START)) = START
        /\ SubSeq(buf, exit_offset_ + 1, exit_offset_ + Len(EXIT)) = EXIT
        /\ Len(buf) = Off(s, Len(s) + 1) + BackJumpLen
        /\ Branch(buf, Len(buf) - BackJumpLen, JMP, exit_offset_)
        /\ \A k \in 1..Len(s) :
             /\ SubSeq(buf, Off(s, k) + 1, Off(s, k) + Len(FixedBytes(s, k))) = FixedBytes(s, k)
             /\ s[k] = "." => Branch(buf, Off(s, k) + Len(WRITE), JNE, exit_offset_)
             /\ s[k] = "," => /\ Branch(buf, Off(s, k) + Len(READ), JL, exit_offset_)
                              /\ SubSeq(buf, Off(s, k) + Len(READ) + BranchLen + 1, Off(s, k + 1)) = READ_STORE
             /\ s[k] = "[" => /\ HasMatch(s, k)
                              /\ Branch(buf, Off(s, k) + Len(LOOP_CMP), JE, Off(s, MatchOf(s, k)) + BackJumpLen)
             /\ (s[k] = "]" /\ ClosesLoop(s, k)) => Branch(buf, Off(s, k), JMP, Off(s, OpenerOf(s, k)))
        /\ ~HasPlaceholder(buf)
        /\ Len(patched) = Cardinality(Loops(s))
        /\ {patched[x] : x \in 1..Len(patched)} = {Off(s, k) + Len(LOOP_CMP) : k \in Loops(s)}

\* a successful init of a source with a loop nested in a loop next to branches to the exit
C9_Witness ==
  /\ initRet = "ok"
  /\ source = <<"[", "[", ".", "]", ",", "[", "-", "]", "]">>

(* C10: characters that emit nothing never affect the build: generation      *)
(* succeeds (a mapping is requested) exactly when every '[' has a matching   *)
(* ']', and the buffer of a successful init equals the buffer built from the *)
(* source without non-command characters and without ']' that close nothing. *)
C10_IgnoredCharacters ==
  nInit = 1 =>
    /\ (mmapCalls = 1) <=> AllOpenMatched(source)
    /\ initRet = "ok" => region.bytes = build_code(Strip(source)).code

\* a successful init of a source with a comment character, a loop and stray ']'
C10_Witness ==
  /\ initRet = "ok"
  /\ source = <<"]", "x", "[", "<", "[", "]", "]", "]">>
  /\ Strip(source) = <<"[", "<", "[", "]", "]">>


---------------------------------------------------------------------------
(* run: the generated bytes executed on the x86-64 subset the templates use  *)
(* (the mnemonics are those of the comments beside each template).  A        *)
(* register holds a signed integer; al is the low byte of rax.  A capability *)
(* returns its C value zero-extended in rax (bool: 0 or 1, int: 0..255).     *)

BF_WRITE == 7001
BF_READ == 7002
ARENA == 1000
RET_ADDR == 9000

ZeroArena == [i \in 0..(ArenaSize - 1) |-> 0]

\* the byte at buffer offset pc + k, -1 outside the copied bytes
Fetch(code, pc, k) == IF pc + k >= 0 /\ pc + k < Len(code) THEN code[pc + k + 1] ELSE -1

At(code, pc, pat) == \A i \in 1..Len(pat) : Fetch(code, pc, i - 1) = pat[i]

Mapped(a) == a >= ARENA /\ a < ARENA + ArenaSize

Fault(x) == [x EXCEPT !.status = "fault"]

Push(x, v, len) == [x EXCEPT !.stack = <<v>> \o x.stack, !.pc = x.pc + len]

SetAl(rax, b) == rax - (rax % 256) + (b % 256)

\* static bool bf_write(void*, char c): putchar(c) != EOF
bf_write(x, c) ==
  IF wmode = "ok"
  THEN [x EXCEPT !.out = Append(x.out, c), !.rax = 1, !.nw = x.nw + 1]
  ELSE [x EXCEPT !.rax = 0, !.nw = x.nw + 1]

\* static int bf_read(void*): getchar(), EOF mapped to 0
bf_read(x) ==
  IF x.rd < Len(stdin)
  THEN [x EXCEPT !.rax = stdin[x.rd + 1], !.rd = x.rd + 1, !.nr = x.nr + 1]
  ELSE [x EXCEPT !.rax = 0, !.nr = x.nr + 1]

\* callq *reg
Call(x, target, len) ==
  IF target = BF_WRITE THEN [bf_write(x, x.rsi % 256) EXCEPT !.pc = x.pc + len]
  ELSE IF target = BF_READ THEN [bf_read(x) EXCEPT !.pc = x.pc + len]
  ELSE Fault(x)

\* mov %rax,(%rbx): a store of the 8 bytes of rax
Store64(x, len) ==
  IF \A k \in 0..7 : Mapped(x.rbx + k)
  THEN [x EXCEPT !.arena = [i \in DOMAIN x.arena |-> IF i >= x.rbx - ARENA /\ i <= x.rbx - ARENA + 7 THEN ByteOf(x.rax, i - (x.rbx - ARENA)) ELSE x.arena[i]], !.pc = x.pc + len]
  ELSE Fault(x)

\* jcc rel32 / jmp rel32 with the displacement at offset pc + oplen
Jump(x, code, oplen, taken) ==
  IF Fetch(code, x.pc, oplen + 3) = -1 THEN Fault(x)
  ELSE [x EXCEPT !.pc = IF taken THEN x.pc + oplen + 4 + Disp32(code, x.pc + oplen) ELSE x.pc + oplen + 4]

\* the kind of the instruction at pc
Kind(code, pc) ==
  CASE At(code, pc, <<\h41, \h54>>) -> "push_r12"
    [] At(code, pc, <<\h41, \h55>>) -> "push_r13"
    [] At(code, pc, <<\h41, \h56>>) -> "push_r14"
    [] At(code, pc, <<\h55>>) -> "push_rbp"
    [] At(code, pc, <<\h53>>) -> "push_rbx"
    [] At(code, pc, <<\h49, \h89, \hfc>>) -> "mov_rdi_r12"
    [] At(code, pc, <<\h49, \h89, \hf5>>) -> "mov_rsi_r13"
    [] At(code, pc, <<\h49, \h89, \hd6>>) -> "mov_rdx_r14"
    [] At(code, pc, <<\h48, \h89, \hcd>>) -> "mov_rcx_rbp"
    [] At(code, pc, <<\h4c, \h89, \hc3>>) -> "mov_r8_rbx"
    [] At(code, pc, <<\heb>>) -> "jmp_short"
    [] At(code, pc, <<\h5b>>) -> "pop_rbx"
    [] At(code, pc, <<\h5d>>) -> "pop_rbp"
    [] At(code, pc, <<\h41, \h5e>>) -> "pop_r14"
    [] At(code, pc, <<\h41, \h5d>>) -> "pop_r13"
    [] At(code, pc, <<\h41, \h5c>>) -> "pop_r12"
    [] At(code, pc, <<\hc3>>) -> "ret"
    [] At(code, pc, <<\h48, \h83, \heb>>) -> "sub_rbx"
    [] At(code, pc, <<\h48, \h83, \hc3>>) -> "add_rbx"
    [] At(code, pc, <<\h48, \h83, \hf8>>) -> "cmp_rax"
    [] At(code, pc, <<\h8a, \h03>>) -> "load_al"
    [] At(code, pc, <<\h2c>>) -> "sub_al"
    [] At(code, pc, <<\h04>>) -> "add_al"
    [] At(code, pc, <<\h88, \h03>>) -> "store_al"
    [] At(code, pc, <<\h48, \h89, \hef>>) -> "mov_rbp_rdi"
    [] At(code, pc, <<\h41, \hff, \hd6>>) -> "call_r14"
    [] At(code, pc, <<\h48, \h89, \h03>>) -> "store_rax"
    [] At(code, pc, <<\h4c, \h89, \hef>>) -> "mov_r13_rdi"
    [] At(code, pc, <<\h48, \h0f, \hb6, \h33>>) -> "movzb_rsi"
    [] At(code, pc, <<\h41, \hff, \hd4>>) -> "call_r12"
    [] At(code, pc, JE) -> "je"
    [] At(code, pc, JNE) -> "jne"
    [] At(code, pc, JL) -> "jl"
    [] At(code, pc, JMP) -> "jmp"
    [] At(code, pc, <<\h80, \h3b>>) -> "cmpb"
    [] OTHER -> "illegal"

Pop(x, reg, len) ==
  IF x.stack = <<>> THEN Fault(x)
  ELSE [x EXCEPT ![reg] = Head(x.stack), !.stack = Tail(x.stack), !.pc = x.pc + len]

\* one instruction of the CPU x on the bytes code
StepM(x, code) ==
  LET k == Kind(code, x.pc)
      imm8 == SImm8(Fetch(code, x.pc, 3))
      imm8al == Fetch(code, x.pc, 1)
      cell == x.rbx - ARENA
  IN  CASE k = "push_r12" -> Push(x, x.r12, 2)
        [] k = "push_r13" -> Push(x, x.r13, 2)
        [] k = "push_r14" -> Push(x, x.r14, 2)
        [] k = "push_rbp" -> Push(x, x.rbp, 1)
        [] k = "push_rbx" -> Push(x, x.rbx, 1)
        [] k = "mov_rdi_r12" -> [x EXCEPT !.r12 = x.rdi, !.pc = x.pc + 3]
        [] k = "mov_rsi_r13" -> [x EXCEPT !.r13 = x.rsi, !.pc = x.pc + 3]
        [] k = "mov_rdx_r14" -> [x EXCEPT !.r14 = x.rdx, !.pc = x.pc + 3]
        [] k = "mov_rcx_rbp" -> [x EXCEPT !.rbp = x.rcx, !.pc = x.pc + 3]
        [] k = "mov_r8_rbx" -> [x EXCEPT !.rbx = x.r8, !.pc = x.pc + 3]
        [] k = "jmp_short" ->
             IF Fetch(code, x.pc, 1) = -1 THEN Fault(x)
             ELSE [x EXCEPT !.pc = x.pc + 2 + SImm8(Fetch(code, x.pc, 1))]
        [] k = "pop_rbx" -> Pop(x, "rbx", 1)
        [] k = "pop_rbp" -> Pop(x, "rbp", 1)
        [] k = "pop_r14" -> Pop(x, "r14", 2)
        [] k = "pop_r13" -> Pop(x, "r13", 2)
        [] k = "pop_r12" -> Pop(x, "r12", 2)
        [] k = "ret" ->
             IF x.stack = <<RET_ADDR>> THEN [x EXCEPT !.status = "returned", !.stack = <<>>]
             ELSE Fault(x)
        [] k = "sub_rbx" /\ Fetch(code, x.pc, 3) # -1 -> [x EXCEPT !.rbx = x.rbx - imm8, !.zf = (x.rbx = imm8), !.lt = (x.rbx < imm8), !.pc = x.pc + 4]
        [] k = "add_rbx" /\ Fetch(code, x.pc, 3) # -1 -> [x EXCEPT !.rbx = x.rbx + imm8, !.zf = (x.rbx + imm8 = 0), !.lt = (x.rbx + imm8 < 0), !.pc = x.pc + 4]
        [] k = "cmp_rax" /\ Fetch(code, x.pc, 3) # -1 -> [x EXCEPT !.zf = (x.rax = imm8), !.lt = (x.rax < imm8), !.pc = x.pc + 4]
        [] k = "load_al" ->
             IF Mapped(x.rbx) THEN [x EXCEPT !.rax = SetAl(x.rax, x.arena[cell]), !.pc = x.pc + 2]
             ELSE Fault(x)
        [] k = "sub_al" /\ imm8al # -1 -> [x EXCEPT !.rax = SetAl(x.rax, x.rax - imm8al), !.zf = ((x.rax - imm8al) % 256 = 0), !.lt = (SImm8(x.rax % 256) < SImm8(imm8al)), !.pc = x.pc + 2]
        [] k = "add_al" /\ imm8al # -1 -> [x EXCEPT !.rax = SetAl(x.rax, x.rax + imm8al), !.zf = ((x.rax + imm8al) % 256 = 0), !.lt = (SImm8(x.rax % 256) + SImm8(imm8al) < 0), !.pc = x.pc + 2]
        [] k = "store_al" ->
             IF Mapped(x.rbx) THEN [x EXCEPT !.arena[cell] = x.rax % 256, !.pc = x.pc + 2]
             ELSE Fault(x)
        [] k = "mov_rbp_rdi" -> [x EXCEPT !.rdi = x.rbp, !.pc = x.pc + 3]
        [] k = "call_r14" -> Call(x, x.r14, 3)
        [] k = "store_rax" -> Store64(x, 3)
        [] k = "mov_r13_rdi" -> [x EXCEPT !.rdi = x.r13, !.pc = x.pc + 3]
        [] k = "movzb_rsi" ->
             IF Mapped(x.rbx) THEN [x EXCEPT !.rsi = x.arena[cell], !.pc = x.pc + 4]
             ELSE Fault(x)
        [] k = "call_r12" -> Call(x, x.r12, 3)
        [] k = "je" -> Jump(x, code, 2, x.zf)
        [] k = "jne" -> Jump(x, code, 2, ~x.zf)
        [] k = "jl" -> Jump(x, code, 2, x.lt)
        [] k = "jmp" -> Jump(x, code, 1, TRUE)
        [] k = "cmpb" /\ Fetch(code, x.pc, 2) # -1 ->
             IF Mapped(x.rbx) THEN [x EXCEPT !.zf = (x.arena[cell] = Fetch(code, x.pc, 2)), !.lt = (SImm8(x.arena[cell]) < SImm8(Fetch(code, x.pc, 2))), !.pc = x.pc + 3]
             ELSE Fault(x)
        [] OTHER -> Fault(x)

\* the registers before any run of the process
Cpu0 == [rax |-> 0, rbx |-> 0, rcx |-> 0, rdx |-> 0, rsi |-> 0, rdi |-> 0, rbp |-> 0, r8 |-> 0, r12 |-> 0, r13 |-> 0, r14 |-> 0, zf |-> FALSE, lt |-> FALSE]

RegNames == DOMAIN Cpu0

\* the registers an earlier run left behind
Leftover(x) == IF x.status = "idle" THEN Cpu0 ELSE [r \in RegNames |-> x[r]]

(* ((BrainfuckFunction)executable_)(&bf_write, NULL, &bf_read, NULL, memory): *)
(* the five arguments in rdi, rsi, rdx, rcx, r8, the return address pushed,   *)
(* the other registers as cpu has them; rd is how much of stdin is consumed   *)
Enter(cpu, arena, rd) ==
  [status |-> "running", pc |-> 0,
   rax |-> cpu.rax, rbx |-> cpu.rbx, rbp |-> cpu.rbp, r12 |-> cpu.r12, r13 |-> cpu.r13, r14 |-> cpu.r14,
   zf |-> cpu.zf, lt |-> cpu.lt,
   rdi |-> BF_WRITE, rsi |-> NULL, rdx |-> BF_READ, rcx |-> NULL, r8 |-> ARENA,
   stack |-> <<RET_ADDR>>, arena |-> arena, out |-> <<>>, rd |-> rd, nw |-> 0, nr |-> 0]

\* whether calling executable_ enters generated code
Runnable == executable_ # NULL /\ executable_ # MAP_FAILED /\ region.prot = "rx"

---------------------------------------------------------------------------
(* A reference Brainfuck interpreter over '<' '>' '+' '-' '.' '[' ']' with   *)
(* wrapping 8-bit cells, stepped once for each effect of the generated code  *)

RefAlphabet == {"<", ">", "+", "-", ".", "[", "]"}

RefApplicable(s) ==
  /\ \A k \in 1..Len(s) : s[k] \in RefAlphabet
  /\ Balanced(s, 1, Len(s))

RefStart(arena) == [status |-> "running", ip |-> 1, ptr |-> 0, tape |-> arena, out |-> <<>>, ok |-> TRUE]

\* the effect of the instruction kind k, "" when it has none of its own
Effect(k) ==
  CASE k = "sub_rbx" -> "left"
    [] k = "add_rbx" -> "right"
    [] k = "store_al" -> "store"
    [] k = "call_r12" -> "write"
    [] k = "call_r14" -> "read"
    [] k = "cmpb" -> "test"
    [] k = "jmp" -> "jump"
    [] OTHER -> ""

RefStep(r, s, e) ==
  IF r.status # "running" THEN [r EXCEPT !.ok = FALSE]
  ELSE IF r.ip > Len(s) THEN
         IF e = "jump" THEN [r EXCEPT !.status = "halted"] ELSE [r EXCEPT !.ok = FALSE]
  ELSE LET c == s[r.ip]
           inside == r.ptr \in DOMAIN r.tape
       IN  CASE c = "<" /\ e = "left" -> [r EXCEPT !.ptr = r.ptr - 1, !.ip = r.ip + 1]
             [] c = ">" /\ e = "right" -> [r EXCEPT !.ptr = r.ptr + 1, !.ip = r.ip + 1]
             [] c = "+" /\ e = "store" /\ inside -> [r EXCEPT !.tape[r.ptr] = (r.tape[r.ptr] + 1) % 256, !.ip = r.ip + 1]
             [] c = "-" /\ e = "store" /\ inside -> [r EXCEPT !.tape[r.ptr] = (r.tape[r.ptr] - 1) % 256, !.ip = r.ip + 1]
             [] c = "." /\ e = "write" /\ inside -> [r EXCEPT !.out = Append(r.out, r.tape[r.ptr]), !.ip = r.ip + 1]
             [] c = "[" /\ e = "test" /\ inside -> [r EXCEPT !.ip = IF r.tape[r.ptr] = 0 THEN MatchOf(s, r.ip) + 1 ELSE r.ip + 1]
             [] c = "]" /\ e = "jump" -> [r EXCEPT !.ip = OpenerOf(s, r.ip)]
             [] OTHER -> [r EXCEPT !.ok = FALSE]

---------------------------------------------------------------------------
(* init once, then run calls *)

Example == <<"+", "+", "+", "+", "+", "+", "+", "+", "+", "+", "[", ">", "+", "+", "+", "+", "+", "+", "+", "+", "+", "+", "<", "-", "]", ">", ".">>

RunExtras == {
  Example,
  <<">", "+", "<", ",">>,
  <<"+", "[", "-", "]">>,
  <<"-", "[", ".", "-", "]">>,
  <<"+", "+", "[", ">", "+", "[", "-", "]", "<", "-", "]">>,
  <<",", "[", ".", ",", "]">>,
  <<",", ">", ",", "<", ".">>,
  <<"-", "[", "-", "]">>,
  <<"+", "[", "]">>,
  <<"+", ".", "[", "-", "]", ".">>,
  <<"+", "[", "[", "-", "]", "]", ">", "-", ".">> }

RunSources == Strings(Commands, MaxRunLen) \cup RunExtras

Inputs == {<<>>, <<65, 66>>}

InitRun ==
  /\ ObjectInit /\ RunInit /\ PageInit
  /\ source \in RunSources
  /\ wmode \in {"ok", "fail"}
  /\ stdin \in Inputs

\* run(memory): memory is a zeroed arena or the arena the last run left
RunCall ==
  /\ proc = "idle"
  /\ nRun < MaxRuns
  /\ nRun' = nRun + 1
  /\ IF Runnable
     THEN \E a \in {ZeroArena} \cup (IF m.status = "returned" THEN {m.arena} ELSE {}) :
            /\ proc' = "running"
            /\ m' = Enter(Leftover(m), a, IF m.status = "idle" THEN 0 ELSE m.rd)
            /\ sh' = Enter(Cpu0, a, IF m.status = "idle" THEN 0 ELSE m.rd)
            /\ ref' = IF RefApplicable(source) /\ wmode = "ok" THEN RefStart(a) ELSE Idle
     ELSE /\ proc' = "crashed"
          /\ UNCHANGED <<m, sh, ref>>
  /\ UNCHANGED <<objVars, source, envVars, pageVars>>

\* the CPU executes the instruction at pc
Step ==
  /\ proc = "running"
  /\ m.nw + m.nr < MaxIO
  /\ LET next == StepM(m, region.bytes)
         e == Effect(Kind(region.bytes, m.pc))
     IN  /\ m' = next
         /\ sh' = IF sh.status = "running" THEN StepM(sh, region.bytes) ELSE sh
         /\ ref' = IF ref.status = "idle" \/ next.status = "fault" \/ e = "" THEN ref ELSE RefStep(ref, source, e)
         /\ proc' = CASE next.status = "returned" -> "idle"
                      [] next.status = "fault" -> "crashed"
                      [] OTHER -> "running"
  /\ UNCHANGED <<objVars, source, nRun, envVars, pageVars>>

NextRun == InitGiven \/ RunCall \/ Step

SpecRun == InitRun /\ [][NextRun]_vars

---------------------------------------------------------------------------
(* Claims about run *)

BodyStart == Len(START) + 2 + Len(EXIT)

InEpilogue(pc) == pc >= exit_offset_ /\ pc < exit_offset_ + Len(EXIT)

\* the instructions of the way out: the compare and branch after a call, the
\* pops and the ret of the epilogue
ExitKinds == {"cmp_rax", "jne", "jl", "pop_rbx", "pop_rbp", "pop_r14", "pop_r13", "pop_r12", "ret"}

\* from m to m' the generated code is on its way out and touches nothing
LeavesUntouched ==
  /\ Kind(region.bytes, m.pc) \in ExitKinds
  /\ m'.status \in {"running", "returned"}
  /\ m'.status = "running" => (InEpilogue(m'.pc) \/ Kind(region.bytes, m.pc) = "cmp_rax")
  /\ m'.arena = m.arena
  /\ m'.out = m.out
  /\ m'.rd = m.rd
  /\ m'.nw = m.nw
  /\ m'.nr = m.nr
  /\ (m'.rbx = m.rbx \/ Kind(region.bytes, m.pc) = "pop_rbx")

(* C2: with standard input at end-of-input (read returns 0), once the first  *)
(* ',' has called read the code only leaves: compare, branch, epilogue,      *)
(* return; no cell is stored to and no later instruction runs.               *)
C2_EofStopsAtRead ==
  [][(proc = "running" /\ stdin = <<>> /\ m.nr >= 1) => LeavesUntouched]_vars

(* C3: with a write capability that always fails, once the first '.' has     *)
(* called write (exactly one call) the code only leaves: compare, branch to  *)
(* the shared exit, epilogue, return; no tape change, pointer move, read or  *)
(* write follows.                                                            *)
C3_WriteFailureStops ==
  [][(proc = "running" /\ wmode = "fail" /\ m.nw >= 1) => (m.nw = 1 /\ LeavesUntouched)]_vars

\* a run returned after a failed write that was followed by more source
C3_Witness ==
  /\ wmode = "fail"
  /\ m.status = "returned"
  /\ m.nw = 1
  /\ source = <<"-", "[", ".", "-", "]">>

\* the instructions that access the cell at the tape pointer
CellKinds == {"load_al", "store_al", "movzb_rsi", "cmpb"}

(* C4: for a bracket-balanced program over < > + - . [ ] and a write that    *)
(* always succeeds, the generated code and the reference interpreter agree   *)
(* at every step on the output, the tape and (inside the program) the tape   *)
(* pointer, the code returns only when the reference has halted and, once it *)
(* has halted, only leaves; it stops early only at an access to a cell       *)
(* outside the arena; the example program outputs the one byte 100.          *)
C4_MatchesReference ==
  (ref.status # "idle" /\ wmode = "ok") =>
    /\ ref.ok
    /\ m.out = ref.out
    /\ m.arena = ref.tape
    /\ (m.status \in {"running", "fault"} /\ m.pc >= BodyStart) => m.rbx - ARENA = ref.ptr
    /\ m.status = "fault" => (Kind(region.bytes, m.pc) \in CellKinds /\ ~Mapped(m.rbx))
    /\ m.status = "returned" => ref.status = "halted"
    /\ ref.status = "halted" => (m.status = "returned" \/ (m.status = "running" /\ InEpilogue(m.pc)))
    /\ (source = Example /\ m.status = "returned" /\ nRun = 1) => m.out = <<100>>

\* the example program has returned from a run on a zeroed tape
C4_Witness ==
  /\ ref.status = "halted"
  /\ source = Example
  /\ nRun = 1
  /\ m.status = "returned"
  /\ m.out = <<100>>
  /\ m.arena[1] = 100

(* C6: every run behaves as a run entered with cleared registers on the same *)
(* arena and the same remaining input: same control flow, output, input      *)
(* consumed and arena; the region and exit offset are those init built; for  *)
(* ',.' on zeroed arenas with input 'A','B' the runs output 'A' then 'B'.    *)
C6_RunsIndependent ==
  m.status # "idle" =>
    /\ m.status = sh.status
    /\ m.status = "running" => m.pc = sh.pc
    /\ m.out = sh.out
    /\ m.rd = sh.rd
    /\ m.arena = sh.arena
    /\ m.status = "returned" =>
         /\ region.bytes = build_code(source).code
         /\ region.prot = "rx"
         /\ exit_offset_ = build_code(source).xo
    /\ (source = <<",", ".">> /\ stdin = <<65, 66>> /\ wmode = "ok" /\ m.status = "returned") =>
         /\ nRun = 1 => m.out = <<65>>
         /\ nRun = 2 => m.out = <<66>>

\* the second run of ',.' has returned, entered with registers the first left
C6_Witness ==
  /\ nRun = 2
  /\ source = <<",", ".">>
  /\ stdin = <<65, 66>>
  /\ m.status = "returned"
  /\ m.out = <<66>>

(* C8: when ',' stores a byte read from input, the cell at the tape pointer  *)
(* holds the byte and every other arena cell and the pointer are unchanged.  *)
C8_ReadStoresOneCell ==
  [][(proc = "running" /\ Kind(region.bytes, m.pc) = "store_rax" /\ m'.status = "running" /\ m.rax # 0)
       => /\ m'.rbx = m.rbx
          /\ m'.arena[m.rbx - ARENA] = m.rax % 256
          /\ \A i \in DOMAIN m.arena : i # m.rbx - ARENA => m'.arena[i] = m.arena[i]]_vars

====
